---- MODULE Spec2Model ----
(***************************************************************************)
(* Model of Q1.py: a websocket feed consumer (websocket_listener) and a    *)
(* trading loop (Trader.trade_loop) run by asyncio.gather in main, sharing *)
(* a Trader (bid, ask, order_count) and a BinanceClient (session).         *)
(*                                                                         *)
(* asyncio tasks are cooperative: a task runs without interleaving from    *)
(* one await that really suspends to the next.  Every action below is one  *)
(* such run: it starts where a task is suspended (the value of its pc) and *)
(* ends at the next suspension.  The interpreter is assumed to be CPython  *)
(* >= 3.8, where asyncio.CancelledError is a BaseException and is not      *)
(* caught by "except Exception".                                           *)
(***************************************************************************)
EXTENDS Integers, Naturals, Sequences, FiniteSets, TLC

\* ------------------------------------------------------------------ bounds
\* number of feed messages delivered in one behaviour (message identities)
MaxMsgs == 2
\* number of consecutive feed failures followed by the ghost counter fails
MaxFails == 7

\* ------------------------------------------------------- program constants
CANCEL_ORDER_COUNT == 5
MAX_RETRY_COUNT == 6
RETRY_BASE_DELAY == 2
BackoffCap == 30
\* Python's None for the Optional[float] fields and Optional results
None == -1
\* prices a feed message can carry (float(payload["b"]), float(payload["a"]))
PriceVals == {0, 2}
HttpStatuses == {200, 400}

VARIABLES
    lpc,          \* websocket_listener: "connecting", "connected", "backoff", "cancelled"
    retry_count,  \* websocket_listener local retry_count
    wait_time,    \* websocket_listener local wait_time (0 before the first failure)
    fails,        \* ghost: feed failures since the last successful connect
    levent,       \* ghost: what the listener's last step was (its console report)
    bid, ask,     \* Trader.bid, Trader.ask
    bidMsg, askMsg, \* ghost: identity of the message each field was taken from
    msgSeq,       \* ghost: number of messages delivered so far
    tpc,          \* trade_loop: "sleep", "placing", "pause", "cancelling", "crashed", "cancelled"
    order_count,  \* Trader.order_count
    windowPosts,  \* ghost: POSTs issued since order_count was last reset
    windowDeletes, \* ghost: DELETEs issued since order_count was last reset
    treport,      \* ghost: last console report of trade_loop
    mid_price,    \* trade_loop local mid_price of the last decision step
    midBidMsg, midAskMsg, \* ghost: messages the last mid_price was computed from
    midFeed,      \* ghost: where the listener was when the last decision step ran
    session,      \* BinanceClient.session: "none" or "open"
    sessOpened,   \* ghost: ClientSession objects created
    sessClosed,   \* ghost: ClientSession.close() calls
    shutdown,     \* the shutdown signal has been delivered
    mpc           \* main: "gather" or "done"

feedVars  == <<lpc, retry_count, wait_time, fails, levent>>
quoteVars == <<bid, ask, bidMsg, askMsg, msgSeq>>
tradeVars == <<tpc, order_count, windowPosts, windowDeletes, treport, mid_price, midBidMsg, midAskMsg,
               midFeed>>
sessVars  == <<session, sessOpened, sessClosed>>
mainVars  == <<shutdown, mpc>>
vars == <<lpc, retry_count, wait_time, fails, levent, bid, ask, bidMsg, askMsg,
          msgSeq, tpc, order_count, windowPosts, windowDeletes, treport, mid_price, midBidMsg,
          midAskMsg, midFeed, session, sessOpened, sessClosed, shutdown, mpc>>

\* ----------------------------------------------------------- pure helpers
Min(a, b) == IF a <= b THEN a ELSE b

RECURSIVE Pow(_, _)
Pow(b, e) == IF e = 0 THEN 1 ELSE b * Pow(b, e - 1)

\* retry_count = min(retry_count + 1, MAX_RETRY_COUNT)
NextRetry(r) == Min(r + 1, MAX_RETRY_COUNT)

\* wait_time = min(RETRY_BASE_DELAY ** retry_count, 30)
BackoffDelayUncapped(r) == Pow(RETRY_BASE_DELAY, r)
BackoffDelay(r) == Min(Pow(RETRY_BASE_DELAY, r), BackoffCap)

\* Python truthiness of an Optional[float]: None and 0.0 are falsy
Truthy(x) == x # None /\ x # 0

\* Trader.get_mid_price
GetMidPriceNoCheck(b, a) == IF b = None \/ a = None THEN 1 ELSE (b + a) \div 2
GetMidPrice(b, a) == IF Truthy(b) /\ Truthy(a) THEN (b + a) \div 2 ELSE None

\* --------------------------------------------------------- feed messages
\* A field of the payload: absent, a JSON null, text that float() rejects,
\* or text/number that float() converts to v.
FieldVals == {[t |-> "missing", v |-> 0], [t |-> "null", v |-> 0], [t |-> "text", v |-> 0]}
               \cup {[t |-> "num", v |-> p] : p \in PriceVals}
MissingField == [t |-> "missing", v |-> 0]

\* kind: "notjson" (json.loads fails), "scalar" (valid JSON, not an object),
\* "object"; env: the payload is nested under "data"; s: "s" is present.
Messages ==
    {[kind |-> "notjson", env |-> FALSE, b |-> MissingField, a |-> MissingField, s |-> FALSE],
     [kind |-> "scalar", env |-> FALSE, b |-> MissingField, a |-> MissingField, s |-> FALSE]}
    \cup [kind : {"object"}, env : BOOLEAN, b : FieldVals, a : FieldVals, s : BOOLEAN]

\* float(payload[k]): KeyError and ValueError are caught by the inner handler,
\* TypeError (float(None)) is not.
FloatOf(f) ==
    CASE f.t = "missing" -> "KeyError"
      [] f.t = "text"    -> "ValueError"
      [] f.t = "null"    -> "TypeError"
      [] OTHER           -> "ok"

\* The body of "async for message in websocket", lines 241-253:
\* res = "ok" (no exception), "caught" (inner except), "escaped" (propagates
\* to the outer except Exception); upd = update_ticker was called.
ParseMessage(m) ==
    IF m.kind = "notjson" THEN [res |-> "caught", upd |-> FALSE, b |-> None, a |-> None]
    ELSE IF m.kind = "scalar" THEN [res |-> "escaped", upd |-> FALSE, b |-> None, a |-> None]
    ELSE IF FloatOf(m.b) # "ok" THEN
        [res |-> IF FloatOf(m.b) = "TypeError" THEN "escaped" ELSE "caught",
         upd |-> FALSE, b |-> None, a |-> None]
    ELSE IF FloatOf(m.a) # "ok" THEN
        [res |-> IF FloatOf(m.a) = "TypeError" THEN "escaped" ELSE "caught",
         upd |-> FALSE, b |-> None, a |-> None]
    ELSE [res |-> IF m.s THEN "ok" ELSE "caught", upd |-> TRUE, b |-> m.b.v, a |-> m.a.v]

\* ------------------------------------------------------------------ Init
Init ==
    /\ lpc = "connecting" /\ retry_count = 0 /\ wait_time = 0 /\ fails = 0
    /\ levent = "start"
    /\ bid = None /\ ask = None /\ bidMsg = 0 /\ askMsg = 0 /\ msgSeq = 0
    /\ tpc = "sleep" /\ order_count = 0 /\ windowPosts = 0 /\ windowDeletes = 0
    /\ treport = "none"
    /\ mid_price = None /\ midBidMsg = 0 /\ midAskMsg = 0 /\ midFeed = "none"
    /\ session = "none" /\ sessOpened = 0 /\ sessClosed = 0
    /\ shutdown = FALSE /\ mpc = "gather"

\* both activities take normal steps only while the event loop runs main's
\* gather and no cancellation is pending
Live == mpc = "gather" /\ ~shutdown


\* ------------------------------------------------------ websocket_listener
\* The claim-side reading of a message: missing or malformed fields
Malformed(m) == m.kind # "object" \/ m.b.t # "num" \/ m.a.t # "num"

\* Trader.update_ticker(bid, ask) for the message with identity id:
\* one tuple assignment, no suspension between the two fields
UpdateTickerBidOnly(b, a, id) ==
    /\ bid' = b /\ bidMsg' = id
    /\ UNCHANGED <<ask, askMsg>>
UpdateTicker(b, a, id) ==
    /\ bid' = b /\ ask' = a
    /\ bidMsg' = id /\ askMsg' = id

\* the outer handler "except Exception", lines 255-260: count the retry,
\* compute the capped delay and suspend in asyncio.sleep(wait_time)
FeedFailureClearsQuote(ev) ==
    /\ retry_count' = NextRetry(retry_count)
    /\ wait_time' = BackoffDelay(NextRetry(retry_count))
    /\ lpc' = "backoff"
    /\ fails' = fails + 1
    /\ levent' = ev
    /\ bid' = None /\ ask' = None /\ bidMsg' = 0 /\ askMsg' = 0
FeedFailure(ev) ==
    /\ retry_count' = NextRetry(retry_count)
    /\ wait_time' = BackoffDelay(NextRetry(retry_count))
    /\ lpc' = "backoff"
    /\ fails' = fails + 1
    /\ levent' = ev
    /\ UNCHANGED <<bid, ask, bidMsg, askMsg>>

\* websockets.connect succeeds: retry_count = 0, start consuming messages
ConnectOK ==
    /\ Live /\ lpc = "connecting"
    /\ lpc' = "connected" /\ retry_count' = 0 /\ fails' = 0
    /\ levent' = "connected"
    /\ UNCHANGED <<wait_time, quoteVars, tradeVars, sessVars, mainVars>>

\* websockets.connect raises
ConnectFail ==
    /\ Live /\ lpc = "connecting" /\ fails < MaxFails
    /\ FeedFailure("connect_failed")
    /\ UNCHANGED <<msgSeq, tradeVars, sessVars, mainVars>>

\* one message arrives on the connection and the loop body runs on it
RecvMessage ==
    /\ Live /\ lpc = "connected" /\ msgSeq < MaxMsgs
    /\ \E m \in Messages :
        LET r == ParseMessage(m) IN
        IF r.res = "escaped"
        THEN /\ fails < MaxFails
             /\ FeedFailure("msg_malformed")
             /\ msgSeq' = msgSeq + 1
        ELSE /\ msgSeq' = msgSeq + 1
             /\ IF r.upd THEN UpdateTicker(r.b, r.a, msgSeq + 1)
                         ELSE UNCHANGED <<bid, ask, bidMsg, askMsg>>
             /\ levent' = IF Malformed(m) THEN "msg_malformed"
                          ELSE IF r.res = "caught" THEN "msg_parse_error"
                          ELSE "msg_valid"
             /\ UNCHANGED <<lpc, retry_count, wait_time, fails>>
    /\ UNCHANGED <<tradeVars, sessVars, mainVars>>

\* the message iterator raises (I/O or protocol error, abnormal close)
StreamError ==
    /\ Live /\ lpc = "connected" /\ fails < MaxFails
    /\ FeedFailure("stream_error")
    /\ UNCHANGED <<msgSeq, tradeVars, sessVars, mainVars>>

\* the message iterator ends without an exception (normal close): the
\* "async with" block exits and "while True" connects again at once
StreamEnd ==
    /\ Live /\ lpc = "connected"
    /\ lpc' = "connecting" /\ levent' = "stream_end"
    /\ UNCHANGED <<retry_count, wait_time, fails, quoteVars, tradeVars, sessVars, mainVars>>

\* the retry counter is cleared when the next attempt starts
BackoffDoneResets ==
    /\ Live /\ lpc = "backoff"
    /\ lpc' = "connecting" /\ levent' = "retry" /\ retry_count' = 0
    /\ UNCHANGED <<wait_time, fails, quoteVars, tradeVars, sessVars, mainVars>>
\* asyncio.sleep(wait_time) returns
BackoffDone ==
    /\ Live /\ lpc = "backoff"
    /\ lpc' = "connecting" /\ levent' = "retry"
    /\ UNCHANGED <<retry_count, wait_time, fails, quoteVars, tradeVars, sessVars, mainVars>>

\* CancelledError is thrown into the listener at its suspension point: on the
\* shutdown signal, or by asyncio.run's teardown once main has returned
ListenerCancelled ==
    /\ lpc # "cancelled"
    /\ shutdown \/ mpc = "done"
    /\ lpc' = "cancelled"
    /\ UNCHANGED <<levent, retry_count, wait_time, fails, quoteVars, tradeVars, sessVars, mainVars>>


\* a new ClientSession is created on every call
EnsureSessionAlways ==
    /\ session' = "open"
    /\ sessOpened' = sessOpened + 1
    /\ UNCHANGED sessClosed
\* ------------------------------------------------------------ BinanceClient
\* ensure_session: create the ClientSession when there is none
EnsureSession ==
    /\ session' = "open"
    /\ sessOpened' = IF session = "none" THEN sessOpened + 1 ELSE sessOpened
    /\ UNCHANGED sessClosed

\* close: close the ClientSession when there is one and forget it
CloseUnchecked ==
    /\ sessClosed' = sessClosed + 1
    /\ session' = "none"
    /\ UNCHANGED sessOpened
Close ==
    /\ sessClosed' = IF session = "open" THEN sessClosed + 1 ELSE sessClosed
    /\ session' = "none"
    /\ UNCHANGED sessOpened

\* --------------------------------------------------------- Trader.trade_loop
\* asyncio.sleep returns and no mid price is available: report and continue
TradeSkip ==
    /\ Live /\ tpc = "sleep"
    /\ ~Truthy(GetMidPrice(bid, ask))
    /\ mid_price' = GetMidPrice(bid, ask)
    /\ midBidMsg' = bidMsg /\ midAskMsg' = askMsg /\ midFeed' = lpc
    /\ treport' = "waiting"
    /\ UNCHANGED <<tpc, order_count, windowPosts, windowDeletes, feedVars, quoteVars, sessVars, mainVars>>

\* asyncio.sleep returns, a mid price is available: choose side and quantity,
\* call place_order, which ensures the session and suspends in session.post
TradePlace ==
    /\ Live /\ tpc = "sleep"
    /\ Truthy(GetMidPrice(bid, ask))
    /\ mid_price' = GetMidPrice(bid, ask)
    /\ midBidMsg' = bidMsg /\ midAskMsg' = askMsg /\ midFeed' = lpc
    /\ \E side \in {"BUY", "SELL"} : treport' = side
    /\ EnsureSession
    /\ windowPosts' = windowPosts + 1
    /\ tpc' = "placing"
    /\ UNCHANGED <<order_count, windowDeletes, feedVars, quoteVars, mainVars>>

\* a place_order call that returned a failure status is sent again
PlaceReturnsResend ==
    /\ Live /\ tpc = "placing"
    /\ \E status \in HttpStatuses :
        IF status = 200
        THEN /\ treport' = "order_ok"
             /\ order_count' = order_count + 1
             /\ tpc' = IF order_count + 1 >= CANCEL_ORDER_COUNT THEN "pause" ELSE "sleep"
             /\ UNCHANGED windowPosts
        ELSE /\ treport' = "order_rejected"
             /\ windowPosts' = windowPosts + 1
             /\ UNCHANGED <<order_count, tpc>>
    /\ UNCHANGED <<windowDeletes, mid_price, midBidMsg, midAskMsg, midFeed, feedVars, quoteVars, sessVars, mainVars>>
\* the sweep is started after every placed order
PlaceReturnsAlwaysSweep ==
    /\ Live /\ tpc = "placing"
    /\ \E status \in HttpStatuses : treport' = IF status = 200 THEN "order_ok" ELSE "order_rejected"
    /\ order_count' = order_count + 1
    /\ tpc' = "pause"
    /\ UNCHANGED <<windowPosts, windowDeletes, mid_price, midBidMsg, midAskMsg, midFeed, feedVars, quoteVars, sessVars, mainVars>>
\* the threshold is tested with > instead of >=
PlaceReturnsOffByOne ==
    /\ Live /\ tpc = "placing"
    /\ \E status \in HttpStatuses : treport' = IF status = 200 THEN "order_ok" ELSE "order_rejected"
    /\ order_count' = order_count + 1
    /\ tpc' = IF order_count + 1 > CANCEL_ORDER_COUNT THEN "pause" ELSE "sleep"
    /\ UNCHANGED <<windowPosts, windowDeletes, mid_price, midBidMsg, midAskMsg, midFeed, feedVars, quoteVars, sessVars, mainVars>>
\* session.post returns a response (any HTTP status): report it, count the
\* order, and at the threshold suspend in asyncio.sleep(2)
PlaceReturns ==
    /\ Live /\ tpc = "placing"
    /\ \E status \in HttpStatuses : treport' = IF status = 200 THEN "order_ok" ELSE "order_rejected"
    /\ order_count' = order_count + 1
    /\ tpc' = IF order_count + 1 >= CANCEL_ORDER_COUNT THEN "pause" ELSE "sleep"
    /\ UNCHANGED <<windowPosts, windowDeletes, mid_price, midBidMsg, midAskMsg, midFeed, feedVars, quoteVars, sessVars, mainVars>>

\* session.post raises (network error, timeout): nothing in trade_loop
\* catches it, the task ends with the exception
PlaceRaises ==
    /\ Live /\ tpc = "placing"
    /\ tpc' = "crashed" /\ treport' = "place_raised"
    /\ UNCHANGED <<order_count, windowPosts, windowDeletes, mid_price, midBidMsg, midAskMsg, midFeed, feedVars, quoteVars, sessVars, mainVars>>

\* asyncio.sleep(2) returns: call cancel_all_orders, which ensures the session
\* and suspends in session.delete
PauseDone ==
    /\ Live /\ tpc = "pause"
    /\ EnsureSession
    /\ tpc' = "cancelling" /\ treport' = "cancelling"
    /\ windowDeletes' = windowDeletes + 1
    /\ UNCHANGED <<order_count, windowPosts, mid_price, midBidMsg, midAskMsg, midFeed, feedVars, quoteVars, mainVars>>

\* session.delete returns a response (any HTTP status): report, reset counter
CancelReturns ==
    /\ Live /\ tpc = "cancelling"
    /\ \E status \in HttpStatuses : treport' = IF status = 200 THEN "cancel_ok" ELSE "cancel_rejected"
    /\ order_count' = 0 /\ windowPosts' = 0 /\ windowDeletes' = 0
    /\ tpc' = "sleep"
    /\ UNCHANGED <<mid_price, midBidMsg, midAskMsg, midFeed, feedVars, quoteVars, sessVars, mainVars>>

\* session.delete raises: the task ends with the exception
CancelRaises ==
    /\ Live /\ tpc = "cancelling"
    /\ tpc' = "crashed" /\ treport' = "cancel_raised"
    /\ UNCHANGED <<order_count, windowPosts, windowDeletes, mid_price, midBidMsg, midAskMsg, midFeed, feedVars, quoteVars, sessVars, mainVars>>

\* CancelledError is thrown into trade_loop at its suspension point
TradeCancelled ==
    /\ shutdown /\ tpc \in {"sleep", "placing", "pause", "cancelling"}
    /\ tpc' = "cancelled"
    /\ UNCHANGED <<order_count, windowPosts, windowDeletes, treport, mid_price, midBidMsg, midAskMsg, midFeed, feedVars, quoteVars, sessVars, mainVars>>

\* ---------------------------------------------------------------------- main
\* the external shutdown signal (SIGINT): the tasks are cancelled
Signal ==
    /\ mpc = "gather" /\ ~shutdown
    /\ shutdown' = TRUE
    /\ UNCHANGED <<mpc, feedVars, quoteVars, tradeVars, sessVars>>

\* main closes the client on the signal without waiting for its children
MainFinallyEarly ==
    /\ mpc = "gather"
    /\ tpc = "crashed" \/ shutdown
    /\ Close
    /\ mpc' = "done"
    /\ UNCHANGED <<shutdown, feedVars, quoteVars, tradeVars>>
\* the await of gather ends in main: with trade_loop's exception as soon as
\* that task has failed, or with CancelledError once both children have
\* finished after the signal; the finally block closes the client
MainFinally ==
    /\ mpc = "gather"
    /\ \/ tpc = "crashed"
       \/ shutdown /\ tpc = "cancelled" /\ lpc = "cancelled"
    /\ Close
    /\ mpc' = "done"
    /\ UNCHANGED <<shutdown, feedVars, quoteVars, tradeVars>>

Next ==
    \/ ConnectOK \/ ConnectFail \/ RecvMessage \/ StreamError \/ StreamEnd
    \/ BackoffDone \/ ListenerCancelled
    \/ TradeSkip \/ TradePlace \/ PlaceReturns \/ PlaceRaises
    \/ PauseDone \/ CancelReturns \/ CancelRaises \/ TradeCancelled
    \/ Signal \/ MainFinally

Spec == Init /\ [][Next]_vars

TypeOK ==
    /\ lpc \in {"connecting", "connected", "backoff", "cancelled"}
    /\ retry_count \in 0..MAX_RETRY_COUNT
    /\ wait_time \in 0..BackoffCap
    /\ bid \in PriceVals \cup {None} /\ ask \in PriceVals \cup {None}
    /\ tpc \in {"sleep", "placing", "pause", "cancelling", "crashed", "cancelled"}
    /\ order_count \in 0..CANCEL_ORDER_COUNT
    /\ session \in {"none", "open"}
    /\ mpc \in {"gather", "done"}


\* the timers fire, pending cancellations are delivered and main resumes;
\* what the network answers, and when, is left to the environment
FairSpec ==
    /\ Spec
    /\ WF_vars(BackoffDone) /\ WF_vars(ListenerCancelled)
    /\ WF_vars(TradeSkip) /\ WF_vars(TradePlace) /\ WF_vars(PauseDone)
    /\ WF_vars(TradeCancelled) /\ WF_vars(MainFinally)

\* ------------------------------------------------------------------ claims
Running == {"sleep", "placing", "pause", "cancelling"}

\* C1: the stored bid and ask always come from the same feed message, and
\* the bid and ask a decision step computed its mid price from do too.
C1_QuoteFromOneMessage ==
    /\ bidMsg = askMsg
    /\ midBidMsg = midAskMsg

\* C1 witness: an order is in flight whose mid price was read from the first
\* message, and the listener has replaced the quote by a later message since.
C1_Witness ==
    /\ tpc = "placing" /\ midBidMsg = 1 /\ bidMsg = 2 /\ mid_price # None

\* C2: a REST call that raised or returned a failure status leaves
\* trade_loop running (it is never ended by the failure).
C2_LoopSurvivesRestFailure ==
    treport \in {"order_rejected", "cancel_rejected", "place_raised", "cancel_raised"}
        => tpc \in Running \cup {"cancelled"}

\* C3: the feed consumer stops and main returns only after the shutdown
\* signal; a failure in the trading loop ends neither.
C3_OnlyShutdownEndsProcess ==
    (lpc = "cancelled" \/ mpc = "done") => shutdown

\* C4: a step in which the feed fails (the listener enters its backoff wait)
\* changes neither the stored quote nor anything of the trading loop or main,
\* and whatever the listener is doing, a trading loop whose periodic wait
\* is over can run its decision step.
C4_FeedFailureIsolated ==
    /\ [][(lpc' = "backoff" /\ lpc # "backoff")
            => UNCHANGED <<bid, ask, bidMsg, askMsg, tradeVars, sessVars, mainVars>>]_vars
    /\ [](lpc \in {"connecting", "backoff"} /\ Live /\ tpc = "sleep"
            => ENABLED (TradeSkip \/ TradePlace))

\* C4 witness: a decision step ran while the listener was in its backoff
\* wait, used the stored quote and has its order in flight.
C4_Witness ==
    /\ midFeed = "backoff" /\ lpc = "backoff" /\ tpc = "placing"
    /\ bid # None /\ ask # None

\* C5: after the shutdown signal neither activity takes another step of its
\* own (each only receives its cancellation) and no session is created; the
\* session is closed at most once, and when main has returned every session
\* that was opened has been closed.
C5_ShutdownReleasesOnce ==
    /\ [](sessClosed <= 1 /\ sessClosed <= sessOpened)
    /\ [](mpc = "done" => session = "none" /\ sessClosed = sessOpened)
    /\ [][shutdown => /\ lpc' \in {lpc, "cancelled"}
                      /\ tpc' \in {tpc, "cancelled"}
                      /\ windowPosts' = windowPosts
                      /\ order_count' = order_count
                      /\ sessOpened' = sessOpened
                      /\ <<bid, ask>>' = <<bid, ask>>]_vars

\* C5 witness: the signal arrived while the listener was in a backoff wait
\* and trade_loop in a REST call; main has returned and closed the session.
C5_Witness ==
    /\ shutdown /\ mpc = "done" /\ sessOpened = 1 /\ sessClosed = 1
    /\ lpc = "cancelled" /\ levent \in {"connect_failed", "stream_error"}
    /\ tpc = "cancelled" /\ treport \in {"BUY", "SELL"}

\* the delays the claim lists: 2, 4, 8, 16, 30, 30, ...
C6_Expected(n) ==
    CASE n = 1 -> 2 [] n = 2 -> 4 [] n = 3 -> 8 [] n = 4 -> 16 [] OTHER -> 30

\* C6: in a run of consecutive feed failures the n-th delay is
\* min(2^min(n, 6), 30), it never exceeds 30 and it never decreases.
C6_BackoffSequence ==
    /\ [](wait_time <= 30)
    /\ [](lpc = "backoff" => wait_time = C6_Expected(fails))
    /\ [][(fails' = fails + 1 /\ fails >= 1) => wait_time' >= wait_time]_vars

\* C6 witness: the seventh consecutive failure, waiting the capped delay.
C6_Witness ==
    lpc = "backoff" /\ fails = 7 /\ wait_time = 30 /\ retry_count = 6

\* C7: without a shutdown signal, every backoff wait is followed by another
\* connection attempt.
C7_FeedNeverGivesUp ==
    (lpc = "backoff") ~> (lpc = "connecting" \/ shutdown)

\* C8: after a message with missing or malformed fields the connection is
\* still established and no retry has been counted.
C8_MalformedDropsOnlyMessage ==
    levent = "msg_malformed"
        => lpc \in {"connected", "cancelled"} /\ retry_count = 0 /\ fails = 0

\* C9: while no quote has been received, a step creates no session, issues
\* no request and leaves order_count unchanged.
C9_NoQuoteNoNetwork ==
    /\ [](bid = None /\ ask = None
            => order_count = 0 /\ windowPosts = 0 /\ sessOpened = 0
               /\ tpc \in {"sleep", "cancelled"})
    /\ [][(bid = None /\ ask = None)
            => tpc' \in {"sleep", "cancelled"} /\ order_count' = order_count
               /\ windowPosts' = windowPosts /\ sessOpened' = sessOpened]_vars

\* C9 witness: a decision cycle ran without a quote and reported waiting.
C9_Witness ==
    /\ treport = "waiting" /\ bid = None /\ ask = None /\ tpc = "sleep"
    /\ order_count = 0 /\ session = "none"

\* C10: every place_order attempt that is no longer in flight has been
\* counted: order_count equals the attempts made since the last reset.
C10_EveryAttemptCounted ==
    (tpc # "placing" /\ ~shutdown) => order_count = windowPosts


\* C11: once a cancel-all sweep has been attempted and is over, whatever its
\* outcome (success status, failure status, raised error), order_count is 0.
C11_ResetAfterEverySweep ==
    treport \in {"cancel_ok", "cancel_rejected", "cancel_raised"} => order_count = 0


\* C12: a POST is issued only by the step that starts a decision step (one
\* POST, from the periodic wait into the call), so at any time at most one
\* attempt more than the counted ones has been made, and only while that
\* attempt is in flight or has ended the loop: a failed call is not re-sent.
C12_PlacementAtMostOnce ==
    /\ [][windowPosts' # windowPosts =>
            \/ windowPosts' = windowPosts + 1 /\ tpc = "sleep" /\ tpc' = "placing"
            \/ windowPosts' = 0 /\ tpc = "cancelling"]_vars
    /\ [](windowPosts \in {order_count, order_count + 1})
    /\ [](windowPosts = order_count + 1 => tpc \in {"placing", "crashed", "cancelled"})

\* C12 witness: a place_order call returned a failure status and the loop is
\* back in its periodic wait with exactly the counted attempts made.
C12_Witness ==
    /\ treport = "order_rejected" /\ tpc = "sleep"
    /\ order_count = 2 /\ windowPosts = 2

\* C13: a message that is processed without a parse error replaces both
\* fields by its own pair; a message that is reported as a parse error
\* (or tears the connection down) leaves bid and ask as they were.
C13_QuoteIsLastValidMessage ==
    [][msgSeq' = msgSeq + 1 =>
            IF levent' = "msg_valid"
            THEN bidMsg' = msgSeq' /\ askMsg' = msgSeq'
            ELSE UNCHANGED <<bid, ask, bidMsg, askMsg>>]_vars

\* C14: the established connection is left only into the backoff wait, with
\* the retry counter incremented (or by cancellation).
C14_StreamEndGoesThroughBackoff ==
    [][(lpc = "connected" /\ lpc' \notin {"connected", "cancelled"})
            => lpc' = "backoff" /\ retry_count' = retry_count + 1]_vars

\* C15: retry_count is lowered only by the step that enters Connected, an
\* attempt that fails raises it (up to the maximum), and it is zero whenever
\* messages are being consumed.
C15_ResetOnlyOnConnected ==
    /\ [][retry_count' < retry_count => lpc = "connecting" /\ lpc' = "connected"]_vars
    /\ [][(lpc = "connecting" /\ lpc' = "backoff")
            => retry_count' >= retry_count /\ retry_count' >= 1]_vars
    /\ [](lpc = "connected" => retry_count = 0)

\* C15 witness: a connection was established after failed attempts and the
\* counter is back at zero.
C15_Witness ==
    lpc = "connected" /\ retry_count = 0 /\ wait_time = 4 /\ levent = "connected"

\* C16: a DELETE is issued only from the pause that follows the 5th counted
\* placement of the window, with order_count at the threshold; a window has
\* at most one DELETE, and from the 5th placement until the sweep is over no
\* POST is issued.
C16_OneSweepPerWindow ==
    /\ [][windowDeletes' > windowDeletes =>
            /\ tpc = "pause" /\ tpc' = "cancelling"
            /\ order_count = CANCEL_ORDER_COUNT /\ windowPosts = 5
            /\ windowDeletes = 0 /\ windowDeletes' = 1]_vars
    /\ [](windowDeletes <= 1)
    /\ [](windowDeletes = 1 => windowPosts = 5)
    /\ [](tpc \in {"pause", "cancelling"} => order_count = 5 /\ windowPosts = 5)
    /\ [][windowPosts' > windowPosts => order_count < 5 /\ windowDeletes = 0]_vars
    /\ [][(order_count = 5 /\ tpc \in Running) => tpc' # "placing"]_vars
    /\ [][(tpc = "pause" /\ tpc' \notin {"pause", "cancelled"})
            => tpc' = "cancelling" /\ windowDeletes' = 1]_vars

\* C16 witness: the sweep of a window is in flight after its five placements.
C16_Witness ==
    /\ tpc = "cancelling" /\ windowDeletes = 1 /\ windowPosts = 5
    /\ order_count = 5 /\ treport = "cancelling"

\* C17: a session is created only by the first REST call (none existed and
\* none had been created before), every REST call that starts has an open
\* session and a call that finds one open creates none, so at most one
\* session is open at any time.
C17_LazySingleSession ==
    /\ [][sessOpened' > sessOpened =>
            /\ session = "none" /\ sessOpened = 0 /\ sessOpened' = 1
            /\ tpc = "sleep" /\ tpc' = "placing"]_vars
    /\ [][(tpc' \in {"placing", "cancelling"} /\ tpc' # tpc) =>
            /\ session' = "open"
            /\ (session = "open" => sessOpened' = sessOpened)]_vars
    /\ [](sessOpened - sessClosed \in {0, 1})
    /\ [](session = "open" <=> sessOpened - sessClosed = 1)
    /\ [](sessOpened = 0 => windowPosts = 0 /\ windowDeletes = 0 /\ order_count = 0)

\* C17 witness: the sweep, a later REST call, runs on the one session that
\* the first place_order created.
C17_Witness ==
    tpc = "cancelling" /\ session = "open" /\ sessOpened = 1 /\ sessClosed = 0

\* C18: order_count stays within 0..5 and is below the threshold whenever
\* trade_loop is in its periodic wait, i.e. at the start of every cycle.
C18_CounterBelowThresholdAtCycleStart ==
    /\ order_count >= 0 /\ order_count <= 5
    /\ (tpc \in {"sleep", "placing"} => order_count < 5)

\* C18 witness: a sweep has returned and the next cycle starts from zero.
C18_Witness ==
    tpc = "sleep" /\ order_count = 0 /\ treport \in {"cancel_ok", "cancel_rejected"}

\* C19: a mid price that a decision step computed from a received message is
\* a value: with a quote stored, get_mid_price never reports it as absent.
C19_QuoteAvailableOnceReceived ==
    midBidMsg >= 1 => mid_price # None

\* C20: when main has run close and returned, trade_loop has ended (no REST
\* call in flight), no session is open, and from then on no REST call is
\* started and no session is created.
C20_CloseAfterLastRestCall ==
    /\ [](mpc = "done" => tpc \in {"crashed", "cancelled"} /\ session = "none"
                          /\ sessClosed = sessOpened)
    /\ [][mpc = "done" => UNCHANGED <<tpc, session, sessOpened, windowPosts, windowDeletes>>]_vars

\* C20 witness: an error escaped trade_loop, main closed the session that had
\* been opened and returned without a shutdown signal.
C20_Witness ==
    /\ mpc = "done" /\ ~shutdown /\ tpc = "crashed"
    /\ sessOpened = 1 /\ sessClosed = 1 /\ session = "none"

====
